---- MODULE Spec2Model ----
(***************************************************************************)
(* SkyCallPro / SkyMessage: the presence, signalling and message relay of  *)
(* the server, in its two implementations:                                 *)
(*   impl = "mem"  the in-memory server (src/server.js; src/unnamed/       *)
(*                 part_001 is the same relay with other cosmetics)        *)
(*   impl = "sql"  the SQLite server (src/unnamed/part_000), whose storage *)
(*                 calls complete in callbacks that run later              *)
(* One step of the model is one run-to-completion turn of the Node event   *)
(* loop: a socket.io handler, an HTTP route, the execution of one queued   *)
(* SQLite statement, or the callback of an executed statement.  The page   *)
(* script of the browser client (the call part of it) is modelled next to  *)
(* the server in the variable page.                                        *)
(***************************************************************************)
EXTENDS Naturals, Sequences, FiniteSets, TLC

\* ---------------------------------------------------------------- bounds
MaxConns == 2
MaxMsgs == 1
MaxTime == 1
MaxPending == 1
MaxLogs == 1
MaxArchive == 1000
MaxSends == 3
MaxCandidates == 2

\* ------------------------------------------------------------ value sets
\* null / no socket id (socket ids are 1..MaxConns)
NoSocket == 0
\* JavaScript's undefined (a missing field, a missing map entry)
Undef == "undefined"
Names == {"alice", "bob"}
\* the usernames in ascending order (SQL's ORDER BY username)
SortedNames == <<"alice", "bob">>
Passwords == {"p1"}
DisplayNames == {"Dn"}
Texts == {"hi", ""}
Sdps == {"sdp1"}
Conns == 1..MaxConns
Impls == {"mem", "sql"}
\* ICE candidates
Candidates == {"cand1", "cand2"}
\* let pc = null
NullPc == [open |-> FALSE, signalingState |-> "closed", remoteDescription |-> Undef,
           added |-> <<>>]
\* let pendingOffer = null
NoOffer == [from |-> Undef, sdp |-> Undef]
\* the page after its script has run: let me = { username: null, ... },
\* pc = null, currentPeer = null, pendingOffer = null, iceQueue = []; emitted is
\* what the page's last step sent over the socket and handled the event the
\* page's last step handled
NewPage ==
  [me |-> Undef, pc |-> NullPc, currentPeer |-> Undef, pendingOffer |-> NoOffer,
   iceQueue |-> <<>>, emitted |-> <<>>,
   handled |-> [ev |-> "load", from |-> Undef, data |-> Undef]]

VARIABLES
  impl,          \* which server is running
  conn,          \* socket id -> "new" | "live" | "closed"
  users,         \* mem: users{} ; sql: the users table (username -> row)
  userKeys,      \* mem: Object.keys(users), the insertion order of users{}
  userSockets,   \* sql: username -> socket id
  socketToUser,  \* socket id -> username
  messages,      \* mem: messages[] ; sql: the messages table
  callLogs,      \* sql: number of rows of call_logs
  now,           \* the last reading of the clock (Date.now())
  pending,       \* sql: statements handed to SQLite whose callback has not run
  last,          \* the event handled by the last step
  out,           \* what the last step emitted, in emission order
  page           \* the script state of one browser page (the client)

registry == <<users, userKeys, userSockets, socketToUser>>
server == <<impl, conn, users, userKeys, userSockets, socketToUser, messages,
            callLogs, now, pending, last, out>>
vars == <<impl, conn, users, userKeys, userSockets, socketToUser, messages,
          callLogs, now, pending, last, out, page>>

\* ------------------------------------------------------------- helpers
\* !x for the values a field can take here
Falsy(x) == x \in {Undef, ""}

\* a || b
OrElse(a, b) == IF Falsy(a) THEN b ELSE a

Live == {c \in Conns : conn[c] = "live"}

\* users[u] is truthy
HasUser(u) == u \in DOMAIN users

\* one emitted event; dst is the set of sockets it is addressed to
Emit(dst, ev, from, to, data, ts, list) ==
  [dst |-> dst, ev |-> ev, from |-> from, to |-> to, data |-> data,
   ts |-> ts, list |-> list]

\* io.to(id).emit(ev, ...): the room of one socket id
EmitTo(id, ev, from, to, data, ts) == Emit({id}, ev, from, to, data, ts, <<>>)

\* cb && cb(res): the acknowledgment of the event, when the client asked for one
Ack(c, cb, res) ==
  IF cb THEN <<Emit({c}, "ack", Undef, Undef, res, 0, <<>>)>> ELSE <<>>

\* res.json({ ok, error }) of an HTTP request: it goes to the HTTP client, to
\* no socket
HttpResponse(res) == <<Emit({}, "http-response", Undef, Undef, res, 0, <<>>)>>

\* the event a step handled
Event(ev, c, name, data, cb) ==
  [ev |-> ev, conn |-> c, name |-> name, data |-> data, cb |-> cb]

\* ------------------------------------------------------- session registry
\* users[u] && users[u].socketId (mem)
SocketIdOf(u) == IF HasUser(u) THEN users[u].socketId ELSE NoSocket

\* userSockets[u] (sql)
UserSocket(u) == IF u \in Names THEN userSockets[u] ELSE NoSocket

\* lookup(identity): the socket id the routers send to, NoSocket when absent
Lookup(u) == IF impl = "mem" THEN SocketIdOf(u) ELSE UserSocket(u)

\* identityOf(connection): socketToUser[socket.id], Undef when absent
IdentityOf(c) == socketToUser[c]

\* ------------------------------------------------------------- the roster
RosterEntry(u, dn, online) == [username |-> u, displayName |-> dn, online |-> online]

\* listUsers(''): every key of users{} in insertion order, with its online flag
ListUsers(us, keys) ==
  [i \in 1..Len(keys) |->
     RosterEntry(keys[i], OrElse(us[keys[i]].displayName, keys[i]),
                 us[keys[i]].socketId # NoSocket)]

\* the characters of the strings of the model
Spell(s) ==
  CASE s = "alice" -> <<"a", "l", "i", "c", "e">>
    [] s = "bob" -> <<"b", "o", "b">>
    [] s = "Dn" -> <<"D", "n">>
    [] s = "B" -> <<"B">>
    [] s = "d" -> <<"d">>
    [] OTHER -> <<>>

\* String.prototype.toLowerCase, on the characters
ToLowerCase(w) ==
  [i \in 1..Len(w) |->
     CASE w[i] = "B" -> "b"
       [] w[i] = "D" -> "d"
       [] OTHER -> w[i]]

\* String.prototype.includes: q is a substring of w
Includes(w, q) ==
  \E i \in 1..(Len(w) - Len(q) + 1) : SubSeq(w, i, i + Len(q) - 1) = q

\* listUsers(q): the keys u of users{} with u.toLowerCase().includes(ql),
\* in insertion order, each with its display name and online flag
ListUsersQ(us, keys, q) ==
  LET ql == ToLowerCase(Spell(OrElse(q, ""))) IN
  SelectSeq(ListUsers(us, keys),
            LAMBDA e : Includes(ToLowerCase(Spell(e.username)), ql))

\* cb && cb(res) of search-users: the roster is the acknowledgment
SearchReply(c, cb, list) ==
  IF cb THEN <<Emit({c}, "ack", Undef, Undef, "users", 0, list)>> ELSE <<>>

\* users-updated sent only to the sockets that have logged in
UsersUpdated_BoundOnly(live, list) ==
  Emit({c \in live : socketToUser[c] # Undef}, "users-updated", Undef, Undef, Undef, 0, list)

\* io.emit('users-updated', list): to every connected socket
UsersUpdated(live, list) == Emit(live, "users-updated", Undef, Undef, Undef, 0, list)

\* --------------------------------------------------------------- sockets
\* io.on('connection'): socket ids are fresh, handed out in order
Connect(c) ==
  /\ conn[c] = "new"
  /\ \A d \in Conns : d < c => conn[d] # "new"
  /\ conn' = [conn EXCEPT ![c] = "live"]
  /\ last' = Event("connection", c, Undef, Undef, FALSE)
  /\ out' = <<>>
  /\ UNCHANGED <<page, impl, registry, messages, callLogs, now, pending>>

\* ------------------------------------------ the in-memory server (server.js)
\* socket-login that keeps an existing binding (first login wins)
SocketLoginMem_FirstLoginWins(c, username) ==
  /\ impl = "mem"
  /\ conn[c] = "live"
  /\ last' = Event("socket-login", c, username, Undef, FALSE)
  /\ IF HasUser(username)
       THEN /\ users' = IF users[username].socketId = NoSocket
                          THEN [users EXCEPT ![username].socketId = c]
                          ELSE users
            /\ socketToUser' = [socketToUser EXCEPT ![c] = username]
            /\ out' = <<UsersUpdated(Live, ListUsers(users', userKeys))>>
       ELSE /\ out' = <<>>
            /\ UNCHANGED <<users, socketToUser>>
  /\ UNCHANGED <<page, impl, conn, userKeys, userSockets, messages, callLogs, now, pending>>

\* socket-login that broadcasts only when it changes a binding
SocketLoginMem_QuietWhenBound(c, username) ==
  /\ impl = "mem"
  /\ conn[c] = "live"
  /\ last' = Event("socket-login", c, username, Undef, FALSE)
  /\ IF HasUser(username)
       THEN /\ users' = [users EXCEPT ![username].socketId = c]
            /\ socketToUser' = [socketToUser EXCEPT ![c] = username]
            /\ out' = IF users[username].socketId = c /\ socketToUser[c] = username
                        THEN <<>>
                        ELSE <<UsersUpdated(Live, ListUsers(users', userKeys))>>
       ELSE /\ out' = <<>>
            /\ UNCHANGED <<users, socketToUser>>
  /\ UNCHANGED <<page, impl, conn, userKeys, userSockets, messages, callLogs, now, pending>>

\* socket-login that broadcasts the roster computed before the binding is
\* written
SocketLoginMem_BroadcastFirst(c, username) ==
  /\ impl = "mem"
  /\ conn[c] = "live"
  /\ last' = Event("socket-login", c, username, Undef, FALSE)
  /\ IF HasUser(username)
       THEN /\ out' = <<UsersUpdated(Live, ListUsers(users, userKeys))>>
            /\ users' = [users EXCEPT ![username].socketId = c]
            /\ socketToUser' = [socketToUser EXCEPT ![c] = username]
       ELSE /\ out' = <<>>
            /\ UNCHANGED <<users, socketToUser>>
  /\ UNCHANGED <<page, impl, conn, userKeys, userSockets, messages, callLogs, now, pending>>

\* socket.on('socket-login', username)
SocketLoginMem(c, username) ==
  /\ impl = "mem"
  /\ conn[c] = "live"
  /\ last' = Event("socket-login", c, username, Undef, FALSE)
  /\ IF HasUser(username)
       THEN /\ users' = [users EXCEPT ![username].socketId = c]
            /\ socketToUser' = [socketToUser EXCEPT ![c] = username]
            /\ out' = <<UsersUpdated(Live, ListUsers(users', userKeys))>>
       ELSE /\ out' = <<>>
            /\ UNCHANGED <<users, socketToUser>>
  /\ UNCHANGED <<page, impl, conn, userKeys, userSockets, messages, callLogs, now, pending>>

\* register without the check for an existing username: the new registration
\* replaces the identity
RegisterMem_Overwrite(c, username, password, displayName, cb) ==
  /\ impl = "mem"
  /\ conn[c] = "live"
  /\ last' = Event("register", c, username, password, cb)
  /\ IF Falsy(username) \/ Falsy(password)
       THEN /\ out' = Ack(c, cb, "username&password required")
            /\ UNCHANGED <<users, userKeys, socketToUser>>
       ELSE /\ users' = [u \in DOMAIN users \cup {username} |->
                 IF u = username
                   THEN [password |-> password,
                         displayName |-> OrElse(displayName, username),
                         socketId |-> c]
                   ELSE users[u]]
            /\ userKeys' = IF HasUser(username) THEN userKeys ELSE Append(userKeys, username)
            /\ socketToUser' = [socketToUser EXCEPT ![c] = username]
            /\ out' = <<UsersUpdated(Live, ListUsers(users', userKeys'))>> \o Ack(c, cb, "ok")
  /\ UNCHANGED <<page, impl, conn, userSockets, messages, callLogs, now, pending>>

\* register that stores the identity as the HTTP route does, without binding
\* the registering socket
RegisterMem_NoBind(c, username, password, displayName, cb) ==
  /\ impl = "mem"
  /\ conn[c] = "live"
  /\ last' = Event("register", c, username, password, cb)
  /\ IF Falsy(username) \/ Falsy(password)
       THEN /\ out' = Ack(c, cb, "username&password required")
            /\ UNCHANGED <<users, userKeys>>
       ELSE IF HasUser(username)
       THEN /\ out' = Ack(c, cb, "username taken")
            /\ UNCHANGED <<users, userKeys>>
       ELSE /\ users' = users @@ (username :>
                 [password |-> password,
                  displayName |-> OrElse(displayName, username),
                  socketId |-> NoSocket])
            /\ userKeys' = Append(userKeys, username)
            /\ out' = <<UsersUpdated(Live, ListUsers(users', userKeys'))>> \o Ack(c, cb, "ok")
  /\ UNCHANGED <<page, impl, conn, userSockets, socketToUser, messages, callLogs, now, pending>>

\* socket.on('register', {username, password, displayName}, cb)
RegisterMem(c, username, password, displayName, cb) ==
  /\ impl = "mem"
  /\ conn[c] = "live"
  /\ last' = Event("register", c, username, password, cb)
  /\ IF Falsy(username) \/ Falsy(password)
       THEN /\ out' = Ack(c, cb, "username&password required")
            /\ UNCHANGED <<users, userKeys, socketToUser>>
       ELSE IF HasUser(username)
       THEN /\ out' = Ack(c, cb, "username taken")
            /\ UNCHANGED <<users, userKeys, socketToUser>>
       ELSE /\ users' = users @@ (username :>
                 [password |-> password,
                  displayName |-> OrElse(displayName, username),
                  socketId |-> c])
            /\ userKeys' = Append(userKeys, username)
            /\ socketToUser' = [socketToUser EXCEPT ![c] = username]
            /\ out' = <<UsersUpdated(Live, ListUsers(users', userKeys'))>> \o Ack(c, cb, "ok")
  /\ UNCHANGED <<page, impl, conn, userSockets, messages, callLogs, now, pending>>

\* app.post('/api/register'): the response is not a socket event
HttpRegisterMem(username, password, displayName) ==
  /\ impl = "mem"
  /\ last' = Event("http-register", NoSocket, username, password, FALSE)
  /\ IF Falsy(username) \/ Falsy(password)
       THEN /\ out' = HttpResponse("username & password required")
            /\ UNCHANGED <<users, userKeys>>
       ELSE IF HasUser(username)
       THEN /\ out' = HttpResponse("username taken")
            /\ UNCHANGED <<users, userKeys>>
       ELSE /\ out' = HttpResponse("ok")
            /\ users' = users @@ (username :>
                 [password |-> password,
                  displayName |-> OrElse(displayName, username),
                  socketId |-> NoSocket])
            /\ userKeys' = Append(userKeys, username)
  /\ UNCHANGED <<page, impl, conn, userSockets, socketToUser, messages, callLogs, now, pending>>

\* disconnect that marks every identity offline
DisconnectMem_AllOffline(c) ==
  /\ impl = "mem"
  /\ conn[c] = "live"
  /\ conn' = [conn EXCEPT ![c] = "closed"]
  /\ last' = Event("disconnect", c, Undef, Undef, FALSE)
  /\ LET u == socketToUser[c] IN
     IF u # Undef /\ HasUser(u)
       THEN /\ users' = [v \in DOMAIN users |-> [users[v] EXCEPT !.socketId = NoSocket]]
            /\ socketToUser' = [socketToUser EXCEPT ![c] = Undef]
            /\ out' = <<UsersUpdated(Live \ {c}, ListUsers(users', userKeys))>>
       ELSE /\ out' = <<>>
            /\ UNCHANGED <<users, socketToUser>>
  /\ UNCHANGED <<page, impl, userKeys, userSockets, messages, callLogs, now, pending>>

\* socket.on('disconnect'): the socket has left its rooms when the handler runs
DisconnectMem(c) ==
  /\ impl = "mem"
  /\ conn[c] = "live"
  /\ conn' = [conn EXCEPT ![c] = "closed"]
  /\ last' = Event("disconnect", c, Undef, Undef, FALSE)
  /\ LET u == socketToUser[c] IN
     IF u # Undef /\ HasUser(u)
       THEN /\ users' = [users EXCEPT ![u].socketId = NoSocket]
            /\ socketToUser' = [socketToUser EXCEPT ![c] = Undef]
            /\ out' = <<UsersUpdated(Live \ {c}, ListUsers(users', userKeys))>>
       ELSE /\ out' = <<>>
            /\ UNCHANGED <<users, socketToUser>>
  /\ UNCHANGED <<page, impl, userKeys, userSockets, messages, callLogs, now, pending>>

\* socket.on('search-users', q, cb) of the in-memory server
SearchUsersMem(c, q, cb) ==
  /\ impl = "mem"
  /\ conn[c] = "live"
  /\ last' = Event("search-users", c, q, Undef, cb)
  /\ out' = SearchReply(c, cb, ListUsersQ(users, userKeys, q))
  /\ UNCHANGED <<page, impl, conn, registry, messages, callLogs, now, pending>>

\* a second disconnect notification that broadcasts the roster again
DisconnectAgainMem_Broadcast(c) ==
  /\ impl = "mem"
  /\ conn[c] = "closed"
  /\ last' = Event("disconnect", c, Undef, "again", FALSE)
  /\ out' = <<UsersUpdated(Live, ListUsers(users, userKeys))>>
  /\ UNCHANGED <<page, impl, conn, registry, messages, callLogs, now, pending>>

\* the 'disconnect' handler run once more for a socket that has disconnected
DisconnectAgainMem(c) ==
  /\ impl = "mem"
  /\ conn[c] = "closed"
  /\ last' = Event("disconnect", c, Undef, "again", FALSE)
  /\ LET u == socketToUser[c] IN
     IF u # Undef /\ HasUser(u)
       THEN /\ users' = [users EXCEPT ![u].socketId = NoSocket]
            /\ socketToUser' = [socketToUser EXCEPT ![c] = Undef]
            /\ out' = <<UsersUpdated(Live, ListUsers(users', userKeys))>>
       ELSE /\ out' = <<>>
            /\ UNCHANGED <<users, socketToUser>>
  /\ UNCHANGED <<page, impl, conn, userKeys, userSockets, messages, callLogs, now, pending>>

\* the events whose handler destructures its first argument:
\* ({ to }, cb) => ..., ({ to, sdp }) => ..., ({ username, password, displayName }, cb) => ...
DestructuringKinds ==
  {"register", "call", "offer", "answer", "ice-candidate", "end-call", "chat-message"}

\* socket.emit(kind) without a payload object: the parameter pattern of the
\* handler throws a TypeError before its first statement; nothing catches it,
\* so the process ends with an uncaught exception and every socket is gone;
\* an acknowledgment callback sent along (cb) is never called
EventWithoutPayload(kind, c, cb) ==
  /\ conn[c] = "live"
  /\ kind \in DestructuringKinds
  /\ last' = Event("uncaughtException", c, kind, Undef, cb)
  /\ out' = <<>>
  /\ conn' = [d \in Conns |-> "closed"]
  /\ UNCHANGED <<page, impl, registry, messages, callLogs, now, pending>>

\* ------------------------------------------------- call signalling router
\* the displayName an incoming-call carries: users[from].displayName in the
\* in-memory server, null in the SQLite server
CallerDisplayName(from) == IF impl = "mem" THEN users[from].displayName ELSE Undef

\* call without the check that the target has a socket
Call_NoOfflineCheck(c, to, cb) ==
  /\ conn[c] = "live"
  /\ last' = Event("call", c, to, Undef, cb)
  /\ LET from == socketToUser[c] IN
     IF from = Undef
       THEN out' = Ack(c, cb, "not logged in")
       ELSE out' = <<EmitTo(Lookup(to), "incoming-call", from, Undef,
                            CallerDisplayName(from), 0)>> \o Ack(c, cb, "ok")
  /\ UNCHANGED <<page, impl, conn, registry, messages, callLogs, now, pending>>

\* socket.on('call', {to}, cb)
Call(c, to, cb) ==
  /\ conn[c] = "live"
  /\ last' = Event("call", c, to, Undef, cb)
  /\ LET from == socketToUser[c] IN
     IF from = Undef
       THEN out' = Ack(c, cb, "not logged in")
       ELSE IF Lookup(to) = NoSocket
       THEN out' = Ack(c, cb, "user offline")
       ELSE out' = <<EmitTo(Lookup(to), "incoming-call", from, Undef,
                            CallerDisplayName(from), 0)>> \o Ack(c, cb, "ok")
  /\ UNCHANGED <<page, impl, conn, registry, messages, callLogs, now, pending>>

\* a signal forwarded without the check that the sender is logged in
Signal_NoSenderCheck(kind, c, to, sdp) ==
  /\ conn[c] = "live"
  /\ last' = Event(kind, c, to, sdp, FALSE)
  /\ LET from == socketToUser[c] IN
     IF Lookup(to) # NoSocket
       THEN out' = <<EmitTo(Lookup(to), kind, from, Undef, sdp, 0)>>
       ELSE out' = <<>>
  /\ UNCHANGED <<page, impl, conn, registry, messages, callLogs, now, pending>>

\* a signal that tells the sender when the target has no socket
Signal_OfflineError(kind, c, to, sdp) ==
  /\ conn[c] = "live"
  /\ last' = Event(kind, c, to, sdp, FALSE)
  /\ LET from == socketToUser[c] IN
     IF from = Undef
       THEN out' = <<>>
       ELSE IF Lookup(to) = NoSocket
       THEN out' = <<EmitTo(c, "error", Undef, to, "user offline", 0)>>
       ELSE out' = <<EmitTo(Lookup(to), kind, from, Undef, sdp, 0)>>
  /\ UNCHANGED <<page, impl, conn, registry, messages, callLogs, now, pending>>

\* socket.on('offer' | 'answer' | 'ice-candidate', {to, sdp | candidate})
Signal(kind, c, to, sdp) ==
  /\ conn[c] = "live"
  /\ last' = Event(kind, c, to, sdp, FALSE)
  /\ LET from == socketToUser[c] IN
     IF from # Undef /\ Lookup(to) # NoSocket
       THEN out' = <<EmitTo(Lookup(to), kind, from, Undef, sdp, 0)>>
       ELSE out' = <<>>
  /\ UNCHANGED <<page, impl, conn, registry, messages, callLogs, now, pending>>

\* end-call that also logs the sender out
EndCall_Unbinds(c, to) ==
  /\ conn[c] = "live"
  /\ last' = Event("end-call", c, to, Undef, FALSE)
  /\ LET from == socketToUser[c] IN
     /\ out' = IF from # Undef /\ Lookup(to) # NoSocket
                 THEN <<EmitTo(Lookup(to), "end-call", from, Undef, Undef, 0)>>
                 ELSE <<>>
     /\ socketToUser' = [socketToUser EXCEPT ![c] = Undef]
  /\ UNCHANGED <<page, impl, conn, users, userKeys, userSockets, messages, callLogs, now, pending>>

\* socket.on('end-call', {to}); the SQLite server also writes a call_logs row
EndCall(c, to) ==
  /\ conn[c] = "live"
  /\ last' = Event("end-call", c, to, Undef, FALSE)
  /\ LET from == socketToUser[c] IN
     IF from = Undef
       THEN /\ out' = <<>>
            /\ UNCHANGED callLogs
       ELSE /\ out' = IF Lookup(to) # NoSocket
                        THEN <<EmitTo(Lookup(to), "end-call", from, Undef, Undef, 0)>>
                        ELSE <<>>
            /\ IF impl = "sql"
                 THEN callLogs < MaxLogs /\ callLogs' = callLogs + 1
                 ELSE UNCHANGED callLogs
  /\ UNCHANGED <<page, impl, conn, registry, messages, now, pending>>

\* ---------------------------------------------------------- message relay
Message(from, to, text, ts) == [from |-> from, to |-> to, text |-> text, ts |-> ts]

\* the live delivery, the chat-acked push and the ok of one persisted message
Deliver(c, from, to, text, ts, cb) ==
  (IF Lookup(to) # NoSocket
     THEN <<EmitTo(Lookup(to), "chat-message", from, Undef, text, ts)>>
     ELSE <<>>)
  \o <<EmitTo(c, "chat-acked", Undef, to, text, ts)>>
  \o Ack(c, cb, "ok")

\* chat-message that archives the message before it checks the sender
ChatMessageMem_PersistFirst(c, to, text, ts, cb) ==
  /\ impl = "mem"
  /\ conn[c] = "live"
  /\ last' = Event("chat-message", c, to, text, cb)
  /\ Len(messages) < MaxMsgs
  /\ ts >= now
  /\ now' = ts
  /\ LET from == socketToUser[c] IN
     /\ messages' = Append(messages, Message(from, to, text, ts))
     /\ out' = IF from = Undef
                 THEN Ack(c, cb, "not logged in")
                 ELSE Deliver(c, from, to, text, ts, cb)
  /\ UNCHANGED <<page, impl, conn, registry, callLogs, pending>>

\* chat-message that refuses a target without a socket, as call does
ChatMessageMem_OnlineOnly(c, to, text, ts, cb) ==
  /\ impl = "mem"
  /\ conn[c] = "live"
  /\ last' = Event("chat-message", c, to, text, cb)
  /\ LET from == socketToUser[c] IN
     IF from = Undef
       THEN /\ out' = Ack(c, cb, "not logged in")
            /\ UNCHANGED <<messages, now>>
       ELSE IF Lookup(to) = NoSocket
       THEN /\ out' = Ack(c, cb, "user offline")
            /\ UNCHANGED <<messages, now>>
       ELSE /\ ts >= now
            /\ now' = ts
            /\ messages' = Append(messages, Message(from, to, text, ts))
            /\ out' = Deliver(c, from, to, text, ts, cb)
  /\ UNCHANGED <<page, impl, conn, registry, callLogs, pending>>

\* chat-message that puts the new message in front of the archive
ChatMessageMem_Prepend(c, to, text, ts, cb) ==
  /\ impl = "mem"
  /\ conn[c] = "live"
  /\ last' = Event("chat-message", c, to, text, cb)
  /\ LET from == socketToUser[c] IN
     IF from = Undef
       THEN /\ out' = Ack(c, cb, "not logged in")
            /\ UNCHANGED <<messages, now>>
       ELSE /\ ts >= now
            /\ now' = ts
            /\ messages' = <<Message(from, to, text, ts)>> \o messages
            /\ out' = Deliver(c, from, to, text, ts, cb)
  /\ UNCHANGED <<page, impl, conn, registry, callLogs, pending>>

\* socket.on('chat-message', {to, text}, cb) of the in-memory server;
\* ts is Date.now(), never before the last reading
ChatMessageMem(c, to, text, ts, cb) ==
  /\ impl = "mem"
  /\ conn[c] = "live"
  /\ last' = Event("chat-message", c, to, text, cb)
  /\ LET from == socketToUser[c] IN
     IF from = Undef
       THEN /\ out' = Ack(c, cb, "not logged in")
            /\ UNCHANGED <<messages, now>>
       ELSE /\ ts >= now
            /\ now' = ts
            /\ messages' = Append(messages, Message(from, to, text, ts))
            /\ out' = Deliver(c, from, to, text, ts, cb)
  /\ UNCHANGED <<page, impl, conn, registry, callLogs, pending>>

\* ------------------------------------- the SQLite server (unnamed/part_000)
\* LIMIT 200 of listUsersSql
RosterLimit == 200

\* a statement handed to SQLite (db.run / db.all) together with the closure of
\* its callback; done once SQLite has executed it, err and rows are its result
Op(kind, c, username, password, displayName, to, text, ts, cb) ==
  [kind |-> kind, conn |-> c, username |-> username, password |-> password,
   displayName |-> displayName, to |-> to, text |-> text, ts |-> ts, cb |-> cb,
   done |-> FALSE, err |-> "", rows |-> <<>>]

\* db.all(SELECT ... ORDER BY username LIMIT 200) of broadcastUsersUpdated
ListOp == Op("list", NoSocket, Undef, Undef, Undef, Undef, Undef, 0, FALSE)

\* the statements SQLite has executed come first, in the order it finished them
DoneCount(q) == Cardinality({i \in 1..Len(q) : q[i].done})

\* room for one more statement in flight
CanQueue == Len(pending) < MaxPending

\* the chat messages archived or on their way to the archive
MsgsInFlight == Cardinality({i \in 1..Len(pending) : pending[i].kind = "message"})

\* socket.on('socket-login', username)
SocketLoginSql(c, username) ==
  /\ impl = "sql"
  /\ conn[c] = "live"
  /\ last' = Event("socket-login", c, username, Undef, FALSE)
  /\ out' = <<>>
  /\ IF Falsy(username)
       THEN UNCHANGED <<socketToUser, userSockets, pending>>
       ELSE /\ CanQueue
            /\ socketToUser' = [socketToUser EXCEPT ![c] = username]
            /\ userSockets' = [userSockets EXCEPT ![username] = c]
            /\ pending' = Append(pending, ListOp)
  /\ UNCHANGED <<page, impl, conn, users, userKeys, messages, callLogs, now>>

\* socket.on('register', {username, password, displayName}, cb)
RegisterSql(c, username, password, displayName, cb) ==
  /\ impl = "sql"
  /\ conn[c] = "live"
  /\ last' = Event("register", c, username, password, cb)
  /\ IF Falsy(username) \/ Falsy(password)
       THEN /\ out' = Ack(c, cb, "username & password required")
            /\ UNCHANGED pending
       ELSE /\ CanQueue
            /\ out' = <<>>
            /\ pending' = Append(pending,
                 Op("register", c, username, password, OrElse(displayName, username),
                    Undef, Undef, 0, cb))
  /\ UNCHANGED <<page, impl, conn, registry, messages, callLogs, now>>

\* app.post('/api/register')
HttpRegisterSql(username, password, displayName) ==
  /\ impl = "sql"
  /\ last' = Event("http-register", NoSocket, username, password, FALSE)
  /\ IF Falsy(username) \/ Falsy(password)
       THEN /\ out' = HttpResponse("username & password required")
            /\ UNCHANGED pending
       ELSE /\ CanQueue
            /\ out' = <<>>
            /\ pending' = Append(pending,
                 Op("http-register", NoSocket, username, password,
                    OrElse(displayName, username), Undef, Undef, 0, FALSE))
  /\ UNCHANGED <<page, impl, conn, registry, messages, callLogs, now>>

\* chat-message that delivers and acknowledges when it hands the INSERT over
ChatMessageSql_AckBeforeWrite(c, to, text, ts, cb) ==
  /\ impl = "sql"
  /\ conn[c] = "live"
  /\ last' = Event("chat-message", c, to, text, cb)
  /\ LET from == socketToUser[c] IN
     IF from = Undef
       THEN /\ out' = Ack(c, cb, "not logged in")
            /\ UNCHANGED <<pending, now>>
       ELSE /\ CanQueue
            /\ ts >= now
            /\ now' = ts
            /\ out' = Deliver(c, from, to, text, ts, cb)
            /\ pending' = Append(pending,
                 Op("message", c, from, Undef, Undef, to, text, ts, FALSE))
  /\ UNCHANGED <<page, impl, conn, registry, messages, callLogs>>

\* socket.on('chat-message', {to, text}, cb); ts is Math.floor(Date.now() / 1000)
ChatMessageSql(c, to, text, ts, cb) ==
  /\ impl = "sql"
  /\ conn[c] = "live"
  /\ last' = Event("chat-message", c, to, text, cb)
  /\ LET from == socketToUser[c] IN
     IF from = Undef
       THEN /\ out' = Ack(c, cb, "not logged in")
            /\ UNCHANGED <<pending, now>>
       ELSE /\ CanQueue
            /\ ts >= now
            /\ now' = ts
            /\ out' = <<>>
            /\ pending' = Append(pending,
                 Op("message", c, from, Undef, Undef, to, text, ts, cb))
  /\ UNCHANGED <<page, impl, conn, registry, messages, callLogs>>

\* socket.on('disconnect')
DisconnectSql(c) ==
  /\ impl = "sql"
  /\ conn[c] = "live"
  /\ conn' = [conn EXCEPT ![c] = "closed"]
  /\ last' = Event("disconnect", c, Undef, Undef, FALSE)
  /\ out' = <<>>
  /\ LET username == socketToUser[c] IN
     IF username # Undef
       THEN /\ CanQueue
            /\ socketToUser' = [socketToUser EXCEPT ![c] = Undef]
            /\ userSockets' = [userSockets EXCEPT ![username] = NoSocket]
            /\ pending' = Append(pending, ListOp)
       ELSE UNCHANGED <<socketToUser, userSockets, pending>>
  /\ UNCHANGED <<page, impl, users, userKeys, messages, callLogs, now>>

\* the first n elements of a sequence (LIMIT n)
Limit(q, n) == SubSeq(q, 1, IF Len(q) < n THEN Len(q) ELSE n)

\* SELECT username, displayName FROM users ... ORDER BY username LIMIT 200, for q = ''
SelectUsers ==
  LET names == SelectSeq(SortedNames, LAMBDA u : HasUser(u)) IN
  Limit([i \in 1..Len(names) |->
           [username |-> names[i], displayName |-> users[names[i]].displayName]],
        RosterLimit)

\* rows.map(r => ({username, displayName: r.displayName || r.username,
\*                 online: !!userSockets[r.username]})) in the callback of db.all
MapRows(rows) ==
  [i \in 1..Len(rows) |->
     RosterEntry(rows[i].username, OrElse(rows[i].displayName, rows[i].username),
                 UserSocket(rows[i].username) # NoSocket)]

\* pending with statement i executed: it joins the executed ones, the others wait
MarkDone(i, op) ==
  LET k == DoneCount(pending)
      idx == {j \in (k + 1)..Len(pending) : j # i}
      waiting == [n \in 1..Cardinality(idx) |->
                    pending[CHOOSE j \in idx : Cardinality({m \in idx : m < j}) = n - 1]]
  IN SubSeq(pending, 1, k) \o <<op>> \o waiting

\* a users table without the PRIMARY KEY on username: INSERT never fails with
\* SQLITE_CONSTRAINT and the later row stands for the identity
DbExec_NoPrimaryKey(i, fail) ==
  /\ impl = "sql"
  /\ i \in 1..Len(pending)
  /\ ~pending[i].done
  /\ LET op == pending[i] IN
     /\ last' = Event("sqlite", op.conn, op.kind, Undef, FALSE)
     /\ out' = <<>>
     /\ IF fail
          THEN /\ pending' = MarkDone(i, [op EXCEPT !.done = TRUE, !.err = "SQLITE_IOERR"])
               /\ UNCHANGED <<users, messages>>
          ELSE
          CASE op.kind \in {"register", "http-register"} ->
               /\ users' = [u \in DOMAIN users \cup {op.username} |->
                     IF u = op.username
                       THEN [password |-> op.password, displayName |-> op.displayName]
                       ELSE users[u]]
               /\ pending' = MarkDone(i, [op EXCEPT !.done = TRUE])
               /\ UNCHANGED messages
            [] op.kind = "message" ->
               IF op.to = Undef \/ op.text = Undef
                 THEN /\ pending' = MarkDone(i, [op EXCEPT !.done = TRUE, !.err = "SQLITE_CONSTRAINT"])
                      /\ UNCHANGED <<users, messages>>
                 ELSE /\ messages' = Append(messages, Message(op.username, op.to, op.text, op.ts))
                      /\ pending' = MarkDone(i, [op EXCEPT !.done = TRUE])
                      /\ UNCHANGED users
            [] op.kind = "list" ->
               /\ pending' = MarkDone(i, [op EXCEPT !.done = TRUE, !.rows = SelectUsers])
               /\ UNCHANGED <<users, messages>>
  /\ UNCHANGED <<page, impl, conn, userKeys, userSockets, socketToUser, callLogs, now>>

\* SQLite executes one of the statements handed to it (in no promised order):
\* the INSERTs check the table's constraints (PRIMARY KEY, NOT NULL); with
\* fail the storage gives the statement up and the tables stay as they were
DbExec(i, fail) ==
  /\ impl = "sql"
  /\ i \in 1..Len(pending)
  /\ ~pending[i].done
  /\ LET op == pending[i] IN
     /\ last' = Event("sqlite", op.conn, op.kind, Undef, FALSE)
     /\ out' = <<>>
     /\ IF fail
          THEN /\ pending' = MarkDone(i, [op EXCEPT !.done = TRUE, !.err = "SQLITE_IOERR"])
               /\ UNCHANGED <<users, messages>>
          ELSE
          CASE op.kind \in {"register", "http-register"} ->
               IF HasUser(op.username)
                 THEN /\ pending' = MarkDone(i, [op EXCEPT !.done = TRUE, !.err = "SQLITE_CONSTRAINT"])
                      /\ UNCHANGED <<users, messages>>
                 ELSE /\ users' = users @@ (op.username :>
                           [password |-> op.password, displayName |-> op.displayName])
                      /\ pending' = MarkDone(i, [op EXCEPT !.done = TRUE])
                      /\ UNCHANGED messages
            [] op.kind = "message" ->
               IF op.to = Undef \/ op.text = Undef
                 THEN /\ pending' = MarkDone(i, [op EXCEPT !.done = TRUE, !.err = "SQLITE_CONSTRAINT"])
                      /\ UNCHANGED <<users, messages>>
                 ELSE /\ messages' = Append(messages, Message(op.username, op.to, op.text, op.ts))
                      /\ pending' = MarkDone(i, [op EXCEPT !.done = TRUE])
                      /\ UNCHANGED users
            [] op.kind = "list" ->
               /\ pending' = MarkDone(i, [op EXCEPT !.done = TRUE, !.rows = SelectUsers])
               /\ UNCHANGED <<users, messages>>
  /\ UNCHANGED <<page, impl, conn, userKeys, userSockets, socketToUser, callLogs, now>>

\* the callback of the INSERT of a message that delivers whatever the result
MessageResult_IgnoreError(op) ==
  Deliver(op.conn, op.username, op.to, op.text, op.ts, op.cb)

\* function (err) {...} of chat-message: 'db error' to the sender when the
\* INSERT failed, else the delivery, chat-acked and ok
MessageResult(op) ==
  IF op.err # ""
    THEN Ack(op.conn, op.cb, "db error")
    ELSE Deliver(op.conn, op.username, op.to, op.text, op.ts, op.cb)

\* the callback of the statement SQLite finished first runs on the event loop
Callback ==
  /\ impl = "sql"
  /\ Len(pending) > 0
  /\ pending[1].done
  /\ LET op == pending[1]
         c == op.conn
     IN
     /\ last' = Event("callback", c, op.kind, Undef, op.cb)
     /\ CASE op.kind = "register" ->
               IF op.err # ""
                 THEN /\ out' = Ack(c, op.cb, IF op.err = "SQLITE_CONSTRAINT"
                                               THEN "username taken" ELSE "db error")
                      /\ pending' = Tail(pending)
                      /\ UNCHANGED <<socketToUser, userSockets>>
                 ELSE /\ socketToUser' = [socketToUser EXCEPT ![c] = op.username]
                      /\ userSockets' = [userSockets EXCEPT ![op.username] = c]
                      /\ pending' = Append(Tail(pending), ListOp)
                      /\ out' = Ack(c, op.cb, "ok")
          [] op.kind = "http-register" ->
               /\ out' = HttpResponse(IF op.err = "" THEN "ok"
                                       ELSE IF op.err = "SQLITE_CONSTRAINT"
                                       THEN "username taken" ELSE "db error")
               /\ pending' = Tail(pending)
               /\ UNCHANGED <<socketToUser, userSockets>>
          [] op.kind = "message" ->
               /\ out' = MessageResult(op)
               /\ pending' = Tail(pending)
               /\ UNCHANGED <<socketToUser, userSockets>>
          [] op.kind = "list" ->
               /\ out' = IF op.err # ""
                           THEN <<>>
                           ELSE <<UsersUpdated(Live, MapRows(op.rows))>>
               /\ pending' = Tail(pending)
               /\ UNCHANGED <<socketToUser, userSockets>>
  /\ UNCHANGED <<page, impl, conn, users, userKeys, messages, callLogs, now>>

\* ------------------------------------------------- history (/api/messages)
\* .slice(-200) of the in-memory server
HistoryLimitMem == 200

\* LIMIT 1000 of the SQLite server
HistoryLimitSql == 1000

\* (m.from === a && m.to === b) || (m.from === b && m.to === a)
Between(m, a, b) == (m.from = a /\ m.to = b) \/ (m.from = b /\ m.to = a)

\* the last n elements of a sequence (.slice(-n))
LastN(q, n) == SubSeq(q, IF Len(q) < n THEN 1 ELSE Len(q) - n + 1, Len(q))

\* ORDER BY ts ASC: rows by ascending ts, rows of equal ts in the order of
\* their rowid, which is the order they were inserted in
SortByTs(rows) ==
  IF \A i \in 1..(Len(rows) - 1) : rows[i].ts <= rows[i + 1].ts
    THEN rows
    ELSE LET rank(i) == Cardinality({j \in 1..Len(rows) :
                           \/ rows[j].ts < rows[i].ts
                           \/ rows[j].ts = rows[i].ts /\ j < i}) + 1
         IN [n \in 1..Len(rows) |-> rows[CHOOSE i \in 1..Len(rows) : rank(i) = n]]

\* history that keeps only what a sent to b
HistoryMem_SentOnly(msgs, a, b) ==
  IF Falsy(a) \/ Falsy(b)
    THEN <<>>
    ELSE LastN(SelectSeq(msgs, LAMBDA m : m.from = a /\ m.to = b), HistoryLimitMem)

\* GET /api/messages?a=&b= of the in-memory server over the archive msgs: the
\* last 200 of the messages between a and b, nothing (status 400) when a or b
\* is missing
HistoryMem(msgs, a, b) ==
  IF Falsy(a) \/ Falsy(b)
    THEN <<>>
    ELSE LastN(SelectSeq(msgs, LAMBDA m : Between(m, a, b)), HistoryLimitMem)

\* GET /api/messages?a=&b= of the SQLite server: SELECT ... WHERE ... ORDER BY
\* ts ASC LIMIT 1000
HistorySql(msgs, a, b) ==
  IF Falsy(a) \/ Falsy(b)
    THEN <<>>
    ELSE Limit(SortByTs(SelectSeq(msgs, LAMBDA m : Between(m, a, b))), HistoryLimitSql)

\* app.get('/api/messages') of the in-memory server: 400 when a or b is
\* missing, otherwise { ok: true, messages: hist }
HttpMessagesMem(a, b) ==
  /\ impl = "mem"
  /\ last' = Event("http-messages", NoSocket, a, b, FALSE)
  /\ out' = IF Falsy(a) \/ Falsy(b)
              THEN HttpResponse("a and b required")
              ELSE <<Emit({}, "http-response", Undef, Undef, "ok", 0,
                          HistoryMem(messages, a, b))>>
  /\ UNCHANGED <<page, impl, conn, registry, messages, callLogs, now, pending>>

\* ------------------------------------------------------ the specification
Init ==
  /\ impl \in Impls
  /\ conn = [c \in Conns |-> "new"]
  /\ users = <<>>
  /\ userKeys = <<>>
  /\ userSockets = [u \in Names |-> NoSocket]
  /\ socketToUser = [c \in Conns |-> Undef]
  /\ messages = <<>>
  /\ callLogs = 0
  /\ now = 0
  /\ pending = <<>>
  /\ last = Event("listen", NoSocket, Undef, Undef, FALSE)
  /\ out = <<>>
  /\ page = NewPage

\* The steps, by component; the parameters are the sets the inputs are drawn from
\* (U usernames, P passwords, D display names, TO targets, T texts, S payloads,
\* CB whether the client passes an acknowledgment callback).
ConnectStep == \E c \in Conns : Connect(c)

RegistryMem(U, P, D, CB) ==
  \/ \E c \in Conns, u \in U : SocketLoginMem(c, u)
  \/ \E c \in Conns, u \in U, p \in P, d \in D, cb \in CB : RegisterMem(c, u, p, d, cb)
  \/ \E u \in U, p \in P, d \in D : HttpRegisterMem(u, p, d)
  \/ \E c \in Conns : DisconnectMem(c)

RegistrySql(U, P, D, CB) ==
  \/ \E c \in Conns, u \in U : SocketLoginSql(c, u)
  \/ \E c \in Conns, u \in U, p \in P, d \in D, cb \in CB : RegisterSql(c, u, p, d, cb)
  \/ \E u \in U, p \in P, d \in D : HttpRegisterSql(u, p, d)
  \/ \E c \in Conns : DisconnectSql(c)

\* F: whether the storage may fail a statement (disk full, I/O error, busy)
Sqlite(F) ==
  \/ \E i \in 1..MaxPending, fail \in F : DbExec(i, fail)
  \/ Callback

CallStep(TO, CB) == \E c \in Conns, to \in TO, cb \in CB : Call(c, to, cb)

SignalStep(TO, S) ==
  \/ \E kind \in {"offer", "answer", "ice-candidate"}, c \in Conns, to \in TO, sdp \in S :
        Signal(kind, c, to, sdp)
  \/ \E c \in Conns, to \in TO : EndCall(c, to)

\* the archive, with the messages on their way to it, has room for one more
ArchiveRoom == Len(messages) + MsgsInFlight < MaxMsgs

ChatMem(TO, T, CB) ==
  \E c \in Conns, to \in TO, text \in T, ts \in 0..MaxTime, cb \in CB :
     /\ IdentityOf(c) # Undef => ArchiveRoom
     /\ ChatMessageMem(c, to, text, ts, cb)

ChatSql(TO, T, CB) ==
  \E c \in Conns, to \in TO, text \in T, ts \in 0..MaxTime, cb \in CB :
     /\ IdentityOf(c) # Undef => ArchiveRoom
     /\ ChatMessageSql(c, to, text, ts, cb)

InitMem == Init /\ impl = "mem"

InitSql == Init /\ impl = "sql"

\* the inputs: a name, or the field missing
NamesOrUndef == Names \cup {Undef}
PasswordsOrUndef == Passwords \cup {Undef}

\* The in-memory server, session registry and call signalling router.  A chat
\* message changes neither the registry nor a socket, so the registry states
\* reached here are those of the whole server.
NextMem ==
  \/ ConnectStep
  \/ RegistryMem(NamesOrUndef, PasswordsOrUndef, {Undef}, BOOLEAN)
  \/ CallStep(NamesOrUndef, BOOLEAN)
  \/ SignalStep(NamesOrUndef, Sdps)

Spec == InitMem /\ [][NextMem]_vars

\* The in-memory server with the message relay; registrations are well-formed.
NextMemChat ==
  \/ ConnectStep
  \/ RegistryMem(Names, Passwords, {Undef}, {TRUE})
  \/ CallStep(NamesOrUndef, BOOLEAN)
  \/ ChatMem(NamesOrUndef, Texts, BOOLEAN)

SpecChat == InitMem /\ [][NextMemChat]_vars

\* The SQLite server, session registry and storage callbacks.
NextSqlRegistry ==
  \/ ConnectStep
  \/ RegistrySql(NamesOrUndef, PasswordsOrUndef, {Undef}, BOOLEAN)
  \/ Sqlite({FALSE})

SpecSqlRegistry == InitSql /\ [][NextSqlRegistry]_vars

\* The SQLite server with the call signalling router.
NextSqlSignalling ==
  \/ ConnectStep
  \/ RegistrySql(Names, Passwords, {Undef}, {FALSE})
  \/ Sqlite({FALSE})
  \/ CallStep(NamesOrUndef, BOOLEAN)
  \/ SignalStep(NamesOrUndef, Sdps)

SpecSqlSignalling == InitSql /\ [][NextSqlSignalling]_vars

\* The SQLite server with the message relay.
NextSqlChat ==
  \/ ConnectStep
  \/ RegistrySql(Names, Passwords, {Undef}, {FALSE})
  \/ Sqlite(BOOLEAN)
  \/ ChatSql(NamesOrUndef, {"hi", Undef}, BOOLEAN)

SpecSqlChat == InitSql /\ [][NextSqlChat]_vars

\* The SQLite server started on a database file that holds the messages of
\* earlier runs: n messages between alice and bob, all older than this run.
\* One connection logs in as alice and sends bob a message.
Archived(n) == [i \in 1..n |-> Message("alice", "bob", "hi", 0)]

InitSqlHistory ==
  /\ impl = "sql"
  /\ conn = [c \in Conns |-> "new"]
  /\ users = <<>>
  /\ userKeys = <<>>
  /\ userSockets = [u \in Names |-> NoSocket]
  /\ socketToUser = [c \in Conns |-> Undef]
  /\ messages \in {Archived(n) : n \in 0..MaxArchive}
  /\ callLogs = 0
  /\ now = 0
  /\ pending = <<>>
  /\ last = Event("listen", NoSocket, Undef, Undef, FALSE)
  /\ out = <<>>
  /\ page = NewPage

NextSqlHistory ==
  \/ Connect(1)
  \/ SocketLoginSql(1, "alice")
  \/ Sqlite({FALSE})
  \/ \E ts \in (now + 1)..MaxTime : ChatMessageSql(1, "bob", "hi", ts, TRUE)

SpecSqlHistory == InitSqlHistory /\ [][NextSqlHistory]_vars

\* The SQLite server with the message relay and the call signalling router:
\* chat messages and offers to registered identities, no storage failures.
NextSqlRelay ==
  \/ ConnectStep
  \/ RegistrySql(Names, Passwords, {Undef}, {FALSE})
  \/ Sqlite({FALSE})
  \/ ChatSql(Names, {"hi"}, {TRUE})
  \/ \E c \in Conns, to \in Names, sdp \in Sdps : Signal("offer", c, to, sdp)

SpecSqlRelay == InitSql /\ [][NextSqlRelay]_vars

\* The in-memory server whose disconnect notifications may come twice, with
\* the message relay.
NextMemLifetime ==
  \/ ConnectStep
  \/ RegistryMem(Names, Passwords, {Undef}, {FALSE})
  \/ \E c \in Conns : DisconnectAgainMem(c)
  \/ ChatMem(Names, {"hi"}, {FALSE})

SpecMemLifetime == InitMem /\ [][NextMemLifetime]_vars

\* The in-memory server with an archive of up to MaxSends messages: two
\* registered users on their sockets send each other messages.
NextMemArchive ==
  \/ ConnectStep
  \/ \E c \in Conns, u \in Names : RegisterMem(c, u, "p1", Undef, FALSE)
  \/ \E c \in Conns : DisconnectMem(c)
  \/ \E c \in Conns, to \in Names, ts \in 0..MaxTime :
        /\ Len(messages) < MaxSends
        /\ ChatMessageMem(c, to, "hi", ts, FALSE)

SpecMemArchive == InitMem /\ [][NextMemArchive]_vars

\* the filters of a roster search: none, a letter of a username in upper
\* case, a letter of a display name in lower case
Queries == {Undef, "", "B", "d"}

\* The in-memory server with the roster search: users register with or
\* without a display name and search the roster.
NextMemSearch ==
  \/ ConnectStep
  \/ RegistryMem(Names, Passwords, DisplayNames \cup {Undef}, {FALSE})
  \/ \E c \in Conns, q \in Queries, cb \in BOOLEAN : SearchUsersMem(c, q, cb)

SpecMemSearch == InitMem /\ [][NextMemSearch]_vars

\* The in-memory server, registry and signalling, with clients that may send
\* an event without its payload object; a process that has ended handles
\* nothing more.
NextMemPayload ==
  \/ last.ev # "uncaughtException" /\ NextMem
  \/ \E kind \in DestructuringKinds, c \in Conns, cb \in BOOLEAN :
        EventWithoutPayload(kind, c, cb)

SpecMemPayload == InitMem /\ [][NextMemPayload]_vars

\* The in-memory server with the message relay and the call signalling
\* router: registered users send messages, call and signal.
NextMemRelay ==
  \/ ConnectStep
  \/ \E c \in Conns, u \in Names : RegisterMem(c, u, "p1", Undef, FALSE)
  \/ \E c \in Conns : DisconnectMem(c)
  \/ ChatMem(Names, {"hi"}, {TRUE})
  \/ CallStep(Names, {TRUE})
  \/ SignalStep(Names, Sdps)

SpecMemRelay == InitMem /\ [][NextMemRelay]_vars

\* The identity directory of the in-memory server: registrations over the
\* socket and over HTTP with every credential and display name, socket logins
\* and disconnects.
Credentials == Passwords \cup {"p2"}

NextMemDirectory ==
  \/ ConnectStep
  \/ RegistryMem(Names, Credentials \cup {Undef}, DisplayNames \cup {Undef}, {TRUE})

SpecMemDirectory == InitMem /\ [][NextMemDirectory]_vars

\* Two sockets have sent register for the same username and both INSERTs are
\* queued in the database, in either order of arrival and with any credentials;
\* the username is new, the other username may be registered already.
InitSqlRace ==
  /\ impl = "sql"
  /\ conn = [c \in Conns |-> "live"]
  /\ userKeys = <<>>
  /\ userSockets = [u \in Names |-> NoSocket]
  /\ socketToUser = [c \in Conns |-> Undef]
  /\ messages = <<>>
  /\ callLogs = 0
  /\ now = 0
  /\ \E c \in Conns, d \in Conns, u \in Names, p \in Credentials, q \in Credentials :
        /\ c # d
        /\ \E v \in Names \ {u} :
              users \in {<<>>, (v :> [password |-> "p1", displayName |-> v])}
        /\ pending = <<Op("register", c, u, p, u, Undef, Undef, 0, TRUE),
                       Op("register", d, u, q, u, Undef, Undef, 0, TRUE)>>
        /\ last = Event("register", d, u, q, TRUE)
  /\ out = <<>>
  /\ page = NewPage

NextSqlRace == Sqlite({FALSE})

SpecSqlRace == InitSqlRace /\ [][NextSqlRace]_vars

\* the usernames a message or a history request may name: the two users and
\* a username nobody registers
Parties == Names \cup {"carol"}

\* The archive of the in-memory server and its history route: registered users
\* send messages to each other and to a third username, and histories are
\* requested for every pair.
NextMemHistory ==
  \/ ConnectStep
  \/ \E c \in Conns, u \in Names : RegisterMem(c, u, "p1", Undef, FALSE)
  \/ \E c \in Conns, to \in Parties, ts \in 0..MaxTime :
        /\ Len(messages) < MaxSends
        /\ ChatMessageMem(c, to, "hi", ts, FALSE)
  \/ \E a \in Parties \cup {Undef}, b \in Parties \cup {Undef} : HttpMessagesMem(a, b)

SpecMemHistory == InitMem /\ [][NextMemHistory]_vars

\* ------------------------------------------------------ the browser page
\* One step is one handler of the page script, run to its end; the awaits
\* inside a handler are not split into steps.
Sent(ev, to) == [ev |-> ev, to |-> to]

Handled(ev, from, data) == [ev |-> ev, from |-> from, data |-> data]

\* pc.remoteDescription && pc.remoteDescription.type
HasRemoteDescription(p) == p.pc.open /\ p.pc.remoteDescription # Undef

\* createPeerConnection(targetUser): pc = new RTCPeerConnection(config),
\* currentPeer = targetUser
CreatePeerConnection(p, targetUser) ==
  [p EXCEPT !.pc = [open |-> TRUE, signalingState |-> "stable",
                    remoteDescription |-> Undef, added |-> <<>>],
            !.currentPeer = targetUser]

\* endCallLocal(): pc.close(), pc = null, currentPeer = null; iceQueue and
\* pendingOffer are not touched
EndCallLocal(p) == [p EXCEPT !.pc = NullPc, !.currentPeer = Undef]

\* btnLogin.onclick when /api/login answers ok
Login(username) ==
  /\ page' = [page EXCEPT !.me = username,
                           !.emitted = <<Sent("socket-login", username)>>,
                           !.handled = Handled("login", Undef, username)]
  /\ UNCHANGED server

\* socket.on('incoming-call', ({ from, displayName }) => ...)
OnIncomingCall(from) ==
  /\ page' = [page EXCEPT !.pendingOffer = [from |-> from, sdp |-> Undef],
                           !.emitted = <<>>,
                           !.handled = Handled("incoming-call", from, Undef)]
  /\ UNCHANGED server

\* socket.on('offer', ({ from, sdp }) => ...)
OnOffer(from, sdp) ==
  /\ page' = [page EXCEPT !.pendingOffer = [from |-> from, sdp |-> sdp],
                           !.emitted = <<>>,
                           !.handled = Handled("offer", from, sdp)]
  /\ UNCHANGED server

\* socket.on('answer', ({ from, sdp }) => ...): without a pc nothing happens;
\* setRemoteDescription of an answer is rejected unless the pc has a local
\* offer (caught and logged); otherwise the queued candidates are added in
\* queue order
OnAnswer(from, sdp) ==
  /\ page' =
       IF page.pc.open /\ page.pc.signalingState = "have-local-offer"
         THEN [page EXCEPT !.pc = [@ EXCEPT !.remoteDescription = sdp,
                                            !.signalingState = "stable",
                                            !.added = @ \o page.iceQueue],
                           !.iceQueue = <<>>,
                           !.emitted = <<>>,
                           !.handled = Handled("answer", from, sdp)]
         ELSE [page EXCEPT !.emitted = <<>>,
                           !.handled = Handled("answer", from, sdp)]
  /\ UNCHANGED server

\* socket.on('ice-candidate', ({ from, candidate }) => ...)
OnIceCandidate(from, candidate) ==
  /\ page' =
       IF HasRemoteDescription(page)
         THEN [page EXCEPT !.pc.added = Append(@, candidate),
                           !.emitted = <<>>,
                           !.handled = Handled("ice-candidate", from, candidate)]
         ELSE [page EXCEPT !.iceQueue = Append(@, candidate),
                           !.emitted = <<>>,
                           !.handled = Handled("ice-candidate", from, candidate)]
  /\ UNCHANGED server

\* socket.on('end-call', ({ from }) => { ...; endCallLocal(); })
OnEndCall(from) ==
  /\ page' = [EndCallLocal(page) EXCEPT !.emitted = <<>>,
                                         !.handled = Handled("end-call", from, Undef)]
  /\ UNCHANGED server

\* initiateCallTo(target) with the server's answer to 'call' (ok or not): on ok
\* the pc is created, the local offer set and the offer sent
InitiateCallTo(target, ok) ==
  /\ page' =
       IF page.me = Undef \/ target = page.me
         THEN [page EXCEPT !.emitted = <<>>,
                           !.handled = Handled("initiateCallTo", Undef, target)]
         ELSE IF ~ok
         THEN [page EXCEPT !.emitted = <<Sent("call", target)>>,
                           !.handled = Handled("initiateCallTo", Undef, target)]
         ELSE [CreatePeerConnection(page, target) EXCEPT
                           !.pc.signalingState = "have-local-offer",
                           !.emitted = <<Sent("call", target), Sent("offer", target)>>,
                           !.handled = Handled("initiateCallTo", Undef, target)]
  /\ UNCHANGED server

\* pc.onicecandidate: a local candidate is sent to the peer the pc was made for
OnLocalCandidate ==
  /\ page.pc.open
  /\ page' = [page EXCEPT !.emitted = <<Sent("ice-candidate", page.currentPeer)>>,
                           !.handled = Handled("icecandidate", Undef, Undef)]
  /\ UNCHANGED server

\* acceptIncoming(): with an sdp in pendingOffer the remote description is set
\* and the answer sent; without one createAnswer() is rejected (caught and
\* logged) after the pc was created.  iceQueue is not read.
AcceptIncoming ==
  /\ page' =
       IF page.pendingOffer.from = Undef
         THEN [page EXCEPT !.emitted = <<>>,
                           !.handled = Handled("acceptIncoming", Undef, Undef)]
         ELSE IF page.pendingOffer.sdp # Undef
         THEN [CreatePeerConnection(page, page.pendingOffer.from) EXCEPT
                           !.pc.remoteDescription = page.pendingOffer.sdp,
                           !.pendingOffer = NoOffer,
                           !.emitted = <<Sent("answer", page.pendingOffer.from)>>,
                           !.handled = Handled("acceptIncoming", Undef, Undef)]
         ELSE [CreatePeerConnection(page, page.pendingOffer.from) EXCEPT
                           !.emitted = <<>>,
                           !.handled = Handled("acceptIncoming", Undef, Undef)]
  /\ UNCHANGED server

\* declineIncoming()
DeclineIncoming ==
  /\ page' =
       IF page.pendingOffer.from = Undef
         THEN [page EXCEPT !.emitted = <<>>,
                           !.handled = Handled("declineIncoming", Undef, Undef)]
         ELSE [page EXCEPT !.pendingOffer = NoOffer,
                           !.emitted = <<Sent("end-call", page.pendingOffer.from)>>,
                           !.handled = Handled("declineIncoming", Undef, Undef)]
  /\ UNCHANGED server

\* btnEnd.onclick
BtnEnd ==
  /\ page' = [EndCallLocal(page) EXCEPT
                !.emitted = IF page.currentPeer # Undef
                              THEN <<Sent("end-call", page.currentPeer)>> ELSE <<>>,
                !.handled = Handled("btnEnd", Undef, Undef)]
  /\ UNCHANGED server

\* The page with every event the server can relay to it (from any identity)
\* and every button.
NextPage ==
  \/ \E u \in Names : Login(u)
  \/ \E from \in Parties : OnIncomingCall(from)
  \/ \E from \in Parties, sdp \in Sdps : OnOffer(from, sdp)
  \/ \E from \in Parties, sdp \in Sdps : OnAnswer(from, sdp)
  \/ \E from \in Parties, candidate \in Candidates :
        /\ Len(page.iceQueue) + Len(page.pc.added) < MaxCandidates
        /\ OnIceCandidate(from, candidate)
  \/ \E from \in Parties : OnEndCall(from)
  \/ \E target \in Parties, ok \in BOOLEAN : InitiateCallTo(target, ok)
  \/ OnLocalCandidate
  \/ AcceptIncoming
  \/ DeclineIncoming
  \/ BtnEnd

SpecPage == InitMem /\ [][NextPage]_vars

\* ================================================================ claims
\* the events of out received by socket d
ReceivedBy(d, o) == {i \in 1..Len(o) : d \in o[i].dst /\ conn[d] = "live"}

\* C1: stale unbind is a no-op: once connB has bound the identity A that connA
\* had bound, a disconnect of connA leaves lookup(A) = connB.
C1_StaleUnbindIsNoOp ==
  [][\A c \in Conns, u \in Names :
       (/\ last'.ev = "disconnect" /\ last'.conn = c
        /\ IdentityOf(c) = u
        /\ Lookup(u) \notin {c, NoSocket})
       => Lookup(u)' = Lookup(u)]_vars

\* C2 as stated: after a socket-login of a registered identity A on connection
\* c, lookup(A) = c and the superseded connection receives no event at all.
C2_SupersededReceivesNothing ==
  [][\A c \in Conns, u \in Names :
       (/\ last'.ev = "socket-login" /\ last'.conn = c /\ last'.name = u
        /\ HasUser(u))
       => /\ Lookup(u)' = c
          /\ \A d \in Conns \ {c} : Lookup(u) = d => ReceivedBy(d, out') = {}]_vars

\* C2 amended: after a socket-login of a registered identity A on connection c,
\* lookup(A) = c, no socket is closed, and the only event emitted is the one
\* users-updated broadcast that every live connection receives: nothing is
\* addressed to the superseded connection alone.
C2_LastLoginWins ==
  [][\A c \in Conns, u \in Names :
       (/\ last'.ev = "socket-login" /\ last'.conn = c /\ last'.name = u
        /\ HasUser(u))
       => /\ Lookup(u)' = c
          /\ conn' = conn
          /\ Len(out') = 1
          /\ out'[1].ev = "users-updated"
          /\ out'[1].dst = Live]_vars

\* a socket-login has superseded a connection d that is still live: d had bound
\* the identity, lookup now gives the newcomer, d got the roster broadcast
C2_Witness ==
  /\ last.ev = "socket-login"
  /\ HasUser(last.name)
  /\ Lookup(last.name) = last.conn
  /\ \E d \in Live \ {last.conn} :
        /\ IdentityOf(d) = last.name
        /\ Len(out) = 1
        /\ ReceivedBy(d, out) = {1}

\* C3: no stale registry entry: lookup never gives a socket that has disconnected.
C3_NoStaleRegistryEntry ==
  \A u \in Names : Lookup(u) # NoSocket => conn[Lookup(u)] # "closed"

\* C4: at most one identity per connection: no socket is the lookup result of
\* two identities.
C4_OneIdentityPerConnection ==
  \A u1, u2 \in Names :
     (u1 # u2 /\ Lookup(u1) # NoSocket) => Lookup(u1) # Lookup(u2)

\* C5: at most one session per identity: at most one live connection c has
\* identityOf(c) = A.
C5_OneSessionPerIdentity ==
  \A u \in Names : Cardinality({c \in Live : IdentityOf(c) = u}) <= 1

\* C6: when the connection that is the current binding of A disconnects,
\* lookup(A) becomes absent, identityOf of the connection becomes absent and
\* A's roster entry is offline.
C6_DisconnectUnbinds ==
  [][\A c \in Conns, u \in Names :
       (last'.ev = "disconnect" /\ last'.conn = c /\ Lookup(u) = c)
       => /\ Lookup(u)' = NoSocket
          /\ IdentityOf(c)' = Undef
          /\ LET list == ListUsers(users', userKeys') IN
             \A i \in 1..Len(list) : list[i].username = u => ~list[i].online]_vars

\* C7: a call from an authenticated connection to an identity with a bound
\* connection delivers exactly one incoming-call, received by that connection
\* and no other, with from the caller's identity, and the caller gets ok.
C7_CallInviteDelivered ==
  [][\A c \in Conns, to \in Names :
       (/\ last'.ev = "call" /\ last'.conn = c /\ last'.name = to
        /\ IdentityOf(c) # Undef
        /\ Lookup(to) # NoSocket)
       => LET calls == {i \in 1..Len(out') : out'[i].ev = "incoming-call"} IN
          /\ Cardinality(calls) = 1
          /\ \A i \in calls :
                /\ out'[i].dst \cap Live = {Lookup(to)}
                /\ out'[i].from = IdentityOf(c)
          /\ last'.cb => \E i \in 1..Len(out') :
                out'[i] = Emit({c}, "ack", Undef, Undef, "ok", 0, <<>>)]_vars

\* C8: a call from an authenticated connection to an identity that is unknown
\* or has no bound connection is answered 'user offline' and nothing else is
\* emitted.
C8_CallToOfflineTarget ==
  [][\A c \in Conns :
       (/\ last'.ev = "call" /\ last'.conn = c
        /\ IdentityOf(c) # Undef
        /\ Lookup(last'.name) = NoSocket)
       => /\ out' = Ack(c, last'.cb, "user offline")
          /\ UNCHANGED <<conn, registry, messages>>]_vars

\* an authenticated caller was told 'user offline' and nobody got an event
C8_Witness ==
  /\ last.ev = "call"
  /\ IdentityOf(last.conn) # Undef
  /\ Lookup(last.name) = NoSocket
  /\ last.name \in Names
  /\ out = <<Emit({last.conn}, "ack", Undef, Undef, "user offline", 0, <<>>)>>

\* C9: a call or a chat message on a connection with no bound identity is
\* answered 'not logged in' to that connection only, whatever the target's
\* state; nothing is forwarded or persisted and the registry is unchanged.
C9_NotLoggedIn ==
  [][\A c \in Conns :
       (/\ last'.ev \in {"call", "chat-message"} /\ last'.conn = c
        /\ IdentityOf(c) = Undef)
       => /\ out' = Ack(c, last'.cb, "not logged in")
          /\ UNCHANGED <<conn, registry, messages>>]_vars

\* a chat message from an unbound connection to a target that is online was
\* answered 'not logged in' and left the archive empty
C9_Witness ==
  /\ last.ev = "chat-message"
  /\ IdentityOf(last.conn) = Undef
  /\ Lookup(last.name) \in Live
  /\ messages = <<>>
  /\ out = <<Emit({last.conn}, "ack", Undef, Undef, "not logged in", 0, <<>>)>>

\* C10: an offer, answer, ice-candidate or end-call on a connection with no
\* bound identity is dropped: nothing is emitted, to the target or to the
\* sender, and no state changes.
C10_UnauthenticatedSignalDropped ==
  [][\A c \in Conns :
       (/\ last'.ev \in {"offer", "answer", "ice-candidate", "end-call"}
        /\ last'.conn = c
        /\ IdentityOf(c) = Undef)
       => /\ out' = <<>>
          /\ UNCHANGED <<conn, registry, messages, callLogs>>]_vars

\* a signal from an unbound connection to a target that is online was dropped
C10_Witness ==
  /\ last.ev \in {"offer", "answer", "ice-candidate", "end-call"}
  /\ IdentityOf(last.conn) = Undef
  /\ Lookup(last.name) \in Live
  /\ out = <<>>

\* the signal kinds the router forwards
SignalKinds == {"offer", "answer", "ice-candidate", "end-call"}

\* C11: fire-and-forget: an offer, answer, ice-candidate or end-call from an
\* authenticated connection to a target that is unknown or unbound emits
\* nothing to the sender, delivers nothing to any connection and changes
\* neither the registry nor the archive.
C11_FireAndForget ==
  [][\A c \in Conns :
       (/\ last'.ev \in SignalKinds /\ last'.conn = c
        /\ IdentityOf(c) # Undef
        /\ Lookup(last'.name) \notin Live)
       => /\ \A d \in Conns : ReceivedBy(d, out') = {}
          /\ Lookup(last'.name) = NoSocket => out' = <<>>
          /\ UNCHANGED <<conn, registry, messages>>]_vars

\* an authenticated connection sent a signal to a registered identity that is
\* not bound, and nothing was emitted
C11_Witness ==
  /\ last.ev \in SignalKinds
  /\ IdentityOf(last.conn) # Undef
  /\ HasUser(last.name)
  /\ Lookup(last.name) = NoSocket
  /\ out = <<>>

\* C12: every signal (offer, answer, ice-candidate, end-call) an authenticated
\* connection sends to a target with a bound connection delivers exactly one
\* event of the same kind, received by the target's connection and by no
\* other, with from the sender's identity and the payload unchanged, whatever
\* was exchanged before.
C12_SignalForwarded ==
  [][\A c \in Conns, to \in Names :
       (/\ last'.ev \in SignalKinds /\ last'.conn = c /\ last'.name = to
        /\ IdentityOf(c) # Undef
        /\ Lookup(to) # NoSocket)
       => /\ Len(out') = 1
          /\ out'[1].ev = last'.ev
          /\ out'[1].from = IdentityOf(c)
          /\ out'[1].data = last'.data
          /\ \A d \in Conns : ReceivedBy(d, out') = IF d = Lookup(to) THEN {1} ELSE {}]_vars

\* the events of kind ev in o
EventsOf(ev, o) == {i \in 1..Len(o) : o[i].ev = ev}

\* the ok acknowledgment of connection c
AckOk(c) == Emit({c}, "ack", Undef, Undef, "ok", 0, <<>>)

\* C13: a chat message from an authenticated sender S to a target T with a
\* bound connection appends exactly one archive entry {S, T, text, ts},
\* delivers exactly one chat-message {from: S, text, ts} to T's connection and
\* to no other, pushes exactly one chat-acked {to: T, text, ts} with the same
\* ts to the sender's connection, and answers ok.
C13_ChatDelivered ==
  [][\A c \in Conns, to \in Names :
       (/\ last'.ev = "chat-message" /\ last'.conn = c /\ last'.name = to
        /\ IdentityOf(c) # Undef
        /\ Lookup(to) # NoSocket)
       => /\ Len(messages') = Len(messages) + 1
          /\ SubSeq(messages', 1, Len(messages)) = messages
          /\ LET m == messages'[Len(messages')]
                 chats == EventsOf("chat-message", out')
                 acked == EventsOf("chat-acked", out')
             IN
             /\ m = Message(IdentityOf(c), to, last'.data, m.ts)
             /\ Cardinality(chats) = 1
             /\ \A i \in chats :
                   /\ out'[i] = EmitTo(Lookup(to), "chat-message", m.from, Undef, m.text, m.ts)
                   /\ \A d \in Conns : i \in ReceivedBy(d, out') <=> d = Lookup(to)
             /\ Cardinality(acked) = 1
             /\ \A i \in acked :
                   out'[i] = EmitTo(c, "chat-acked", Undef, to, m.text, m.ts)
             /\ last'.cb => \E i \in 1..Len(out') : out'[i] = AckOk(c)]_vars

\* C14: a chat message from an authenticated sender to a target with no bound
\* connection is still appended to the archive, the sender gets chat-acked
\* and ok, and no connection receives a chat-message.
C14_ChatToOfflineTarget ==
  [][\A c \in Conns :
       (/\ last'.ev = "chat-message" /\ last'.conn = c
        /\ IdentityOf(c) # Undef
        /\ Lookup(last'.name) = NoSocket)
       => /\ Len(messages') = Len(messages) + 1
          /\ LET m == messages'[Len(messages')] IN
             /\ messages' = Append(messages, m)
             /\ m = Message(IdentityOf(c), last'.name, last'.data, m.ts)
             /\ out' = <<EmitTo(c, "chat-acked", Undef, m.to, m.text, m.ts)>>
                         \o Ack(c, last'.cb, "ok")
          /\ \A d \in Conns : \A i \in ReceivedBy(d, out') : out'[i].ev # "chat-message"]_vars

\* a message to a registered identity that is not bound was archived and
\* acknowledged, and nothing else was emitted
C14_Witness ==
  /\ last.ev = "chat-message"
  /\ IdentityOf(last.conn) # Undef
  /\ HasUser(last.name)
  /\ Lookup(last.name) = NoSocket
  /\ last.cb
  /\ Len(messages) > 0
  /\ messages[Len(messages)].to = last.name
  /\ Len(out) = 2
  /\ out[1].ev = "chat-acked"
  /\ out[2] = AckOk(last.conn)

\* the step handled a chat message: the handler of the in-memory server, the
\* callback of the INSERT in the SQLite server
ChatHandled(e) == e.ev = "chat-message" \/ (e.ev = "callback" /\ e.name = "message")

\* archive entry m is the message that event e is about
AboutMessage(e, m) ==
  CASE e.ev = "chat-message" -> m.from = e.from /\ m.text = e.data /\ m.ts = e.ts
    [] e.ev = "chat-acked" -> m.to = e.to /\ m.text = e.data /\ m.ts = e.ts
    [] OTHER -> TRUE

\* C15: durability precedes acknowledgment: whenever a chat-message delivery,
\* a chat-acked or the ok of a chat message has been emitted, the archive
\* holds the message they are about; none is emitted for a message that is
\* not persisted.
C15_DurabilityPrecedesAck ==
  LET evs == {i \in 1..Len(out) :
                \/ out[i].ev \in {"chat-message", "chat-acked"}
                \/ ChatHandled(last) /\ out[i].ev = "ack" /\ out[i].data = "ok"}
  IN evs # {} =>
       \E k \in 1..Len(messages) : \A i \in evs : AboutMessage(out[i], messages[k])

\* the callback of a successful INSERT delivered the message to the target's
\* live connection and acknowledged it to the sender
C15_Witness ==
  /\ impl = "sql"
  /\ last.ev = "callback" /\ last.name = "message"
  /\ Len(out) = 3
  /\ out[1].ev = "chat-message" /\ out[1].dst \subseteq Live
  /\ out[2].ev = "chat-acked"
  /\ out[3] = AckOk(last.conn)
  /\ Len(messages) > 0

\* C16: when the archive write of a chat message fails, the write leaves the
\* archive as it was and its callback answers the sender with a failure and
\* nothing else: no chat-message is delivered, no chat-acked is pushed, and
\* archive and registry are unchanged.
C16_FailedWrite ==
  [][/\ (/\ last'.ev = "sqlite" /\ last'.name = "message"
         /\ pending'[DoneCount(pending')].err # "")
        => UNCHANGED <<registry, messages>>
     /\ (/\ last'.ev = "callback" /\ last'.name = "message"
         /\ pending[1].err # "")
        => /\ out' = Ack(pending[1].conn, pending[1].cb, "db error")
           /\ UNCHANGED <<conn, registry, messages>>]_vars

\* the storage failed the INSERT of a well-formed message to a target that is
\* online, and the sender, still connected, was answered 'db error'
C16_Witness ==
  /\ last.ev = "callback" /\ last.name = "message"
  /\ last.conn \in Live
  /\ out = <<Emit({last.conn}, "ack", Undef, Undef, "db error", 0, <<>>)>>
  /\ messages = <<>>
  /\ \E u \in Names : Lookup(u) \in Live \ {last.conn}

\* C17: a chat message with an empty body is rejected before persistence: the
\* archive is unchanged, nothing is delivered to the target and nothing is
\* pushed as chat-acked, and the sender is answered with a failure, not ok.
C17_EmptyBodyRejected ==
  [][\A c \in Conns :
       (/\ last'.ev = "chat-message" /\ last'.conn = c
        /\ IdentityOf(c) # Undef
        /\ last'.data = "")
       => /\ UNCHANGED <<messages, pending>>
          /\ EventsOf("chat-message", out') = {}
          /\ EventsOf("chat-acked", out') = {}
          /\ \A i \in 1..Len(out') : out'[i] # AckOk(c)
          /\ last'.cb => \E i \in 1..Len(out') : out'[i].ev = "ack" /\ out'[i].dst = {c}]_vars

\* m is one of the rows of h
Contains(h, m) == SelectSeq(h, LAMBDA x : x = m) # <<>>

\* C18: every chat message acknowledged ok is retrievable: right after the
\* acknowledgment history(sender, target) contains the message, however many
\* messages were archived between the two identities before.
C18_AckedIsRetrievable ==
  [][/\ \A c \in Conns :
          (/\ impl = "mem"
           /\ last'.ev = "chat-message" /\ last'.conn = c
           /\ IdentityOf(c) # Undef
           /\ last'.name \in Names)
          => Contains(HistoryMem(messages', IdentityOf(c), last'.name),
                      Message(IdentityOf(c), last'.name, last'.data, now'))
     /\ (/\ last'.ev = "callback" /\ last'.name = "message"
         /\ pending[1].err = ""
         /\ pending[1].to \in Names)
        => Contains(HistorySql(messages', pending[1].username, pending[1].to),
                    Message(pending[1].username, pending[1].to,
                            pending[1].text, pending[1].ts))]_vars

\* C19: per-sender-per-target FIFO: what one connection sends to one target
\* is delivered to the target's connection in the order it was sent.  Stated
\* for a chat message followed by a call signal: the chat message, whose INSERT
\* was handed over before the signal was handled, is never delivered to
\* connection d by the step right after the one that delivered the signal to d.
C19_PerSenderFifo ==
  [][~ \E c \in Conns, d \in Conns :
         /\ last.ev \in SignalKinds /\ last.conn = c
         /\ ReceivedBy(d, out) # {}
         /\ last'.ev = "callback" /\ last'.name = "message" /\ last'.conn = c
         /\ pending[1].to = last.name
         /\ \E i \in ReceivedBy(d, out') : out'[i].ev = "chat-message"]_vars

\* the registry: lookup of every identity and identityOf of every connection
Bindings == <<[u \in Names |-> Lookup(u)], socketToUser>>

\* the users-updated broadcasts among the events o
Broadcasts(o) == Cardinality(EventsOf("users-updated", o))

\* C20 as stated: exactly one users-updated broadcast fires for each step
\* that changes the registry, and none for a step that leaves the registry
\* unchanged.
C20_BroadcastPerChange ==
  [][Broadcasts(out') = IF Bindings' # Bindings THEN 1 ELSE 0]_vars

\* the step was a bind or an unbind: a socket-login of a registered identity,
\* a register that created the identity, or the disconnect of a connection
\* that has an identity
BindOrUnbind ==
  \/ last'.ev = "socket-login" /\ HasUser(last'.name)
  \/ last'.ev = "register" /\ ~HasUser(last'.name) /\ last'.name \in DOMAIN users'
  \/ last'.ev = "disconnect" /\ IdentityOf(last'.conn) # Undef

\* C20 amended: exactly one users-updated broadcast fires for each bind
\* (socket-login of a registered identity, successful register), also when the
\* binding was already in place, and for each disconnect of a connection that
\* has an identity; none fires for any other operation.  Every step that
\* changes the registry is one of these, so it fires exactly one broadcast.
C20_BroadcastPerBind ==
  [][/\ Broadcasts(out') = IF BindOrUnbind THEN 1 ELSE 0
     /\ Bindings' # Bindings => Broadcasts(out') = 1
     /\ \A i \in EventsOf("users-updated", out') : out'[i].dst = Live']_vars

\* a socket-login has bound a registered identity and its one broadcast has
\* reached a second live connection
C20_Witness ==
  /\ last.ev = "socket-login"
  /\ Lookup(last.name) = last.conn
  /\ IdentityOf(last.conn) = last.name
  /\ Broadcasts(out) = 1
  /\ Len(out) = 1
  /\ \E d \in Live \ {last.conn} : ReceivedBy(d, out) = {1}

\* C21: after every registry mutation (socket-login of a registered identity,
\* register that creates an identity, disconnect of a connection with an
\* identity) the unfiltered roster, one entry for every registered identity,
\* is pushed to every live connection, with or without a bound identity.
C21_RosterToEveryConnection ==
  [][BindOrUnbind =>
       \E i \in 1..Len(out') :
          /\ out'[i].ev = "users-updated"
          /\ out'[i].list = ListUsers(users', userKeys')
          /\ {out'[i].list[k].username : k \in 1..Len(out'[i].list)} = DOMAIN users'
          /\ \A d \in Conns : conn'[d] = "live" => d \in out'[i].dst]_vars

\* the roster broadcast of a socket-login was received by a live connection
\* that has no identity and is not the one that logged in
C21_Witness ==
  /\ last.ev = "socket-login"
  /\ Broadcasts(out) = 1
  /\ \E d \in Live \ {last.conn} :
        /\ IdentityOf(d) = Undef
        /\ \A u \in Names : Lookup(u) # d
        /\ ReceivedBy(d, out) = {1}

\* C22: double disconnect is idempotent: a second disconnect notification for
\* a connection changes neither the registry nor the archive and emits
\* nothing, also when the identity the connection had bound has been bound
\* again by another connection in between.
C22_DoubleDisconnect ==
  [][\A c \in Conns :
       (last'.ev = "disconnect" /\ last'.conn = c /\ conn[c] = "closed")
       => /\ out' = <<>>
          /\ UNCHANGED <<conn, registry, messages>>]_vars

\* a second disconnect notification was handled while another live connection
\* holds an identity and the archive holds a message
C22_Witness ==
  /\ last.ev = "disconnect" /\ last.data = "again"
  /\ conn[last.conn] = "closed"
  /\ out = <<>>
  /\ Len(messages) > 0
  /\ \E d \in Live, u \in Names : Lookup(u) = d /\ IdentityOf(d) = u

\* C23: the archive is append-only: no step removes or modifies an archived
\* message or changes the order of the archived messages, only a chat message
\* changes the archive, and each chat message of an authenticated sender
\* appends exactly one entry at the end.
C23_AppendOnly ==
  [][/\ Len(messages') \in {Len(messages), Len(messages) + 1}
     /\ SubSeq(messages', 1, Len(messages)) = messages
     /\ messages' # messages => last'.ev = "chat-message"
     /\ (last'.ev = "chat-message" /\ IdentityOf(last'.conn) # Undef)
        => messages' = Append(messages,
                              Message(IdentityOf(last'.conn), last'.name, last'.data, now'))]_vars

\* a third message was appended behind two archived messages that differ
C23_Witness ==
  /\ last.ev = "chat-message"
  /\ Len(messages) = 3
  /\ messages[1] # messages[2]
  /\ messages[3] = Message(IdentityOf(last.conn), last.name, last.data, now)

\* the place of a username in ascending order
NameRank(u) == CHOOSE i \in 1..Len(SortedNames) : SortedNames[i] = u

\* C24: the roster a users-updated broadcast carries is ordered by username
\* ascending and has at most the fixed maximum number of entries, whatever
\* the order the identities were registered in.
C24_RosterSortedAndCapped ==
  \A i \in EventsOf("users-updated", out) :
     LET list == out[i].list IN
     /\ Len(list) <= RosterLimit
     /\ \A k \in 1..(Len(list) - 1) :
           NameRank(list[k].username) < NameRank(list[k + 1].username)

\* C25: a roster search with filter q returns exactly the identities whose
\* username or display name contains q as a case-insensitive substring; an
\* empty filter returns all identities.
C25_SearchFilter ==
  [][\A c \in Conns :
       (last'.ev = "search-users" /\ last'.conn = c /\ last'.cb)
       => LET ql == ToLowerCase(Spell(OrElse(last'.name, "")))
              found == IF Len(out') = 1 THEN out'[1].list ELSE <<>>
          IN
          /\ Len(out') = 1
          /\ out'[1].dst = {c}
          /\ {found[k].username : k \in 1..Len(found)}
               = {u \in DOMAIN users :
                    \/ Includes(ToLowerCase(Spell(u)), ql)
                    \/ Includes(ToLowerCase(Spell(OrElse(users[u].displayName, u))), ql)}
          /\ Falsy(last'.name) => Len(found) = Len(userKeys)]_vars

\* the server process has ended with an uncaught exception
ServerFailed == last.ev = "uncaughtException"

\* C26: no client event is fatal: whatever the event, the registry state and
\* the payload (a missing payload object, a missing target field), the server
\* never fails, and a call or signal without a target ends as a no-op or as
\* an error reply to the sender only.
C26_NoEventIsFatal ==
  [][/\ ~ServerFailed'
     /\ (last'.ev \in SignalKinds \cup {"call"} /\ last'.name = Undef)
        => /\ UNCHANGED <<conn, registry, messages>>
           /\ \A i \in 1..Len(out') :
                 /\ out'[i].ev = "ack"
                 /\ out'[i].dst = {last'.conn}
                 /\ out'[i].data # "ok"]_vars

\* C27: call signalling is stateless on the server: handling call, offer,
\* answer, ice-candidate or end-call changes neither direction of the session
\* registry, nor the identity directory, nor the message archive, nor a socket.
C27_SignallingIsStateless ==
  [][last'.ev \in SignalKinds \cup {"call"}
       => UNCHANGED <<users, userKeys, userSockets, socketToUser, messages, conn>>]_vars

\* an end-call was forwarded to the live connection of its target while the
\* archive holds a message
C27_Witness ==
  /\ last.ev = "end-call"
  /\ IdentityOf(last.conn) # Undef
  /\ Lookup(last.name) \in Live
  /\ Len(out) = 1
  /\ Len(messages) > 0

\* the event a step handled: its own kind, or the kind whose handler threw
HandledKind(e) == IF e.ev = "uncaughtException" THEN e.name ELSE e.ev

\* the responses a step gave to the sender of its event
Responses(e, o) == {i \in 1..Len(o) : o[i].ev = "ack" /\ o[i].dst = {e.conn}}

\* C28: every call invite and every chat-send that carries an acknowledgment
\* callback gets exactly one response, given in the step that handles it,
\* whatever the target connection does.
C28_ExactlyOneResponse ==
  [][(HandledKind(last') \in {"call", "chat-message"} /\ last'.cb)
       => Cardinality(Responses(last', out')) = 1]_vars

\* what a step answered to the party that sent a registration: the HTTP
\* response, or the acknowledgment to the registering socket
Replies(e, o) ==
  {o[i].data : i \in {k \in 1..Len(o) :
      IF e.ev = "http-register"
        THEN o[k].ev = "http-response"
        ELSE o[k].ev = "ack" /\ o[k].dst = {e.conn}}}

\* C29: usernames are unique and identities are never deleted: registering,
\* over HTTP or over the socket, a username that exists fails with
\* 'username taken' and leaves the identity's credential, display name and
\* binding as they were; the set of registered identities only grows.
C29_UsernamesUniqueAndKept ==
  [][/\ \A u \in DOMAIN users : u \in DOMAIN users'
     /\ \A i \in 1..Len(userKeys') : \A j \in 1..Len(userKeys') :
           userKeys'[i] = userKeys'[j] => i = j
     /\ (last'.ev \in {"register", "http-register"} /\ HasUser(last'.name))
          => /\ UNCHANGED <<users, userKeys, userSockets, socketToUser>>
             /\ "ok" \notin Replies(last', out')
             /\ ~Falsy(last'.data) => Replies(last', out') = {"username taken"}]_vars

\* a registration of a bound identity's username with another password was
\* refused with 'username taken'
C29_Witness ==
  /\ last.ev \in {"register", "http-register"}
  /\ HasUser(last.name)
  /\ ~Falsy(last.data)
  /\ users[last.name].password # last.data
  /\ users[last.name].socketId \in Live
  /\ Replies(last, out) = {"username taken"}

\* the events the signalling router forwards to a target
ForwardedKinds == SignalKinds \cup {"incoming-call"}

\* C30: a relayed call event has two distinct parties: the connection that
\* receives a forwarded incoming-call, offer, answer, ice-candidate or end-call
\* is never the connection that sent the signal.
C30_TwoDistinctParties ==
  [][last'.ev \in SignalKinds \cup {"call"}
       => \A i \in 1..Len(out') :
             out'[i].ev \in ForwardedKinds => last'.conn \notin out'[i].dst]_vars

\* C31: a disconnect of connection c changes at most the binding of the
\* identity that c is bound to and c's own reverse entry; the bindings of
\* every other identity, the identity directory and the archive are unchanged.
C31_DisconnectFrame ==
  [][last'.ev = "disconnect"
       => LET c == last'.conn
              u == socketToUser[c]
          IN /\ \A d \in Conns \ {c} : socketToUser'[d] = socketToUser[d]
             /\ userKeys' = userKeys
             /\ DOMAIN users' = DOMAIN users
             /\ \A v \in DOMAIN users :
                   /\ users'[v].password = users[v].password
                   /\ users'[v].displayName = users[v].displayName
                   /\ v # u => users'[v] = users[v]
             /\ \A v \in Names \ {u} : userSockets'[v] = userSockets[v]
             /\ messages' = messages]_vars

\* a bound connection disconnected while another identity is bound to a live
\* connection and the archive holds a message
C31_Witness ==
  /\ last.ev = "disconnect"
  /\ last.data = Undef
  /\ Len(out) = 1
  /\ socketToUser[last.conn] = Undef
  /\ \E d \in Live : IdentityOf(d) # Undef /\ Lookup(IdentityOf(d)) = d
  /\ Len(messages) > 0

\* every bound connection and every bound identity names a registered identity
OnlyRegisteredBound ==
  /\ \A c \in Conns : IdentityOf(c) # Undef => HasUser(IdentityOf(c))
  /\ \A u \in Names : Lookup(u) # NoSocket => HasUser(u)

\* C32: only registered identities are ever bound: a socket-login naming an
\* unregistered or empty username leaves the registry unchanged and causes no
\* broadcast, so identityOf(c) and every identity with a binding is registered.
C32_OnlyRegisteredIdentitiesBound ==
  [][/\ OnlyRegisteredBound'
     /\ (last'.ev = "socket-login" /\ ~HasUser(last'.name))
          => /\ UNCHANGED <<registry, pending>>
             /\ Broadcasts(out') = 0]_vars

\* the roster snapshots a step sent: users-updated broadcasts and search results
Snapshots(o) ==
  {i \in 1..Len(o) : o[i].ev = "users-updated" \/ (o[i].ev = "ack" /\ o[i].data = "users")}

\* C33: in every roster snapshot (search result or users-updated broadcast) an
\* entry's online flag is true exactly when the identity has a binding in the
\* registry state the step that sent the snapshot produced: no identity is
\* reported online after its unbind or offline after its bind.
C33_OnlineFlagIsDerived ==
  \A i \in Snapshots(out) :
     \A k \in 1..Len(out[i].list) :
        out[i].list[k].online <=> Lookup(out[i].list[k].username) # NoSocket

\* the broadcast of a disconnect reports the identity that was unbound as
\* offline and another identity as online
C33_Witness ==
  /\ last.ev = "disconnect"
  /\ \E i \in Snapshots(out) :
        \E k \in 1..Len(out[i].list) : \E n \in 1..Len(out[i].list) :
           /\ ~out[i].list[k].online
           /\ out[i].list[n].online

\* C34: a successful registration over the socket also binds: afterwards
\* lookup(new username) is the registering connection, identityOf(that
\* connection) is the new username, one users-updated broadcast is sent and
\* the caller gets ok; a failed socket registration (missing field or username
\* taken) changes neither the directory nor the registry and sends no broadcast.
C34_SocketRegisterBinds ==
  [][last'.ev = "register"
       => LET c == last'.conn
              u == last'.name
          IN IF ~Falsy(u) /\ ~Falsy(last'.data) /\ ~HasUser(u)
               THEN /\ DOMAIN users' = DOMAIN users \cup {u}
                    /\ users'[u].password = last'.data
                    /\ users'[u].socketId = c
                    /\ socketToUser'[c] = u
                    /\ Broadcasts(out') = 1
                    /\ last'.cb => Replies(last', out') = {"ok"}
               ELSE /\ UNCHANGED registry
                    /\ Broadcasts(out') = 0
                    /\ "ok" \notin Replies(last', out')
                    /\ last'.cb => Cardinality(Replies(last', out')) = 1]_vars

\* a socket that was bound to another identity registered a new username, is
\* now the lookup result of the new identity and got ok and the broadcast
C34_Witness ==
  /\ last.ev = "register"
  /\ HasUser(last.name)
  /\ users[last.name].socketId = last.conn
  /\ socketToUser[last.conn] = last.name
  /\ Replies(last, out) = {"ok"}
  /\ Broadcasts(out) = 1
  /\ Len(userKeys) = 2

\* the registrations whose INSERT callback has not run yet
RegistersPending == SelectSeq(pending, LAMBDA op : op.kind = "register")

\* the connections bound to an identity
BoundConns == {c \in Conns : socketToUser[c] # Undef}

C36_ChatToUnregisteredTarget ==
  [][\A c \in Conns :
       LET stored == last'.ev = "callback"
           to == IF stored THEN pending[1].to ELSE last'.name
           accepted == IF stored THEN pending[1].err = ""
                                 ELSE impl = "mem" /\ IdentityOf(c) # Undef
           m == IF stored
                  THEN Message(pending[1].username, to, pending[1].text, pending[1].ts)
                  ELSE Message(IdentityOf(c), to, last'.data, now')
       IN (/\ ChatHandled(last') /\ last'.conn = c
           /\ accepted
           /\ to \in Names /\ ~HasUser(to))
          => /\ Contains(messages', m)
             /\ out' = <<EmitTo(c, "chat-acked", Undef, to, m.text, m.ts)>>
                         \o Ack(c, last'.cb, "ok")]_vars

\* the rows of msgs at the positions idx, in the order of msgs
Pick(msgs, idx) ==
  [n \in 1..Cardinality(idx) |->
     msgs[CHOOSE j \in idx : Cardinality({m \in idx : m < j}) = n - 1]]

\* h is made of rows of msgs, each taken once, in the order of msgs
InArchiveOrder(h, msgs) == \E idx \in SUBSET (1..Len(msgs)) : h = Pick(msgs, idx)

\* C37: history is symmetric and exact: history(a, b) equals history(b, a) and
\* consists only of archived messages with (from = a and to = b) or (from = b
\* and to = a), in the order they were archived; no message involving a third
\* identity appears in it.
C37_HistorySymmetricAndExact ==
  [][(last'.ev = "http-messages" /\ ~Falsy(last'.name) /\ ~Falsy(last'.data))
       => LET a == last'.name
              b == last'.data
              h == out'[1].list
          IN /\ Len(out') = 1
             /\ h = HistoryMem(messages, b, a)
             /\ \A i \in 1..Len(h) :
                   \/ h[i].from = a /\ h[i].to = b
                   \/ h[i].from = b /\ h[i].to = a
             /\ InArchiveOrder(h, messages)
             /\ messages' = messages]_vars

\* a history with a message of each direction was returned while the archive
\* also holds a message to a third username
C37_Witness ==
  /\ last.ev = "http-messages"
  /\ Len(out) = 1
  /\ \E i \in 1..Len(out[1].list) : \E k \in 1..Len(out[1].list) :
        /\ out[1].list[i].from = last.name /\ out[1].list[i].to = last.data
        /\ out[1].list[k].from = last.data /\ out[1].list[k].to = last.name
        /\ last.name # last.data
  /\ \E n \in 1..Len(messages) : messages[n].to = "carol"

\* C38: in the client every ICE candidate that arrives before the peer
\* connection has a remote description is queued, and the queue is applied in
\* arrival order when the remote description is set, on the caller side (by the
\* answer) and on the callee side (by accepting the offer); no queued candidate
\* stays unapplied while the call has its remote description.
C38_QueuedCandidatesApplied ==
  [][/\ (page'.handled.ev = "ice-candidate" /\ ~HasRemoteDescription(page))
          => page'.iceQueue = Append(page.iceQueue, page'.handled.data)
     /\ (HasRemoteDescription(page') /\ ~HasRemoteDescription(page))
          => page'.pc.added = page.iceQueue
     /\ HasRemoteDescription(page') => page'.iceQueue = <<>>]_vars

\* C39: a client's active call is torn down by a received end-call only when
\* the event's from is the client's current call peer; an end-call from any
\* other identity leaves the active call as it is.
C39_EndCallOnlyFromPeer ==
  [][(/\ page'.handled.ev = "end-call"
      /\ page.pc.open
      /\ page'.handled.from # page.currentPeer)
       => /\ page'.pc = page.pc
          /\ page'.currentPeer = page.currentPeer]_vars

====
